---- MODULE Spec2Model ----
(***************************************************************************)
(* Model of uspacy_import.py: the batch driver main() and the functions it *)
(* calls (load_rows, fetch_fields, build_update_payload, search_entity,    *)
(* patch_entity).  The driver is sequential; the model splits main() at    *)
(* the points where it consumes input from its environment: the header     *)
(* row, the fields response, each data row, each search response and each  *)
(* patch response.                                                         *)
(*                                                                         *)
(* Python values are represented as follows.                               *)
(*   - an optional string (args.search_field) is <<>> for None, <<s>>      *)
(*     otherwise;                                                          *)
(*   - the dict `row` is a sequence of [k, v] pairs with distinct keys in  *)
(*     insertion order; other dicts (payload, fields, title maps) are      *)
(*     functions, and the empty dict is <<>>;                              *)
(*   - a candidate record returned by the search is [id |-> raw], where    *)
(*     raw = Absent stands for a record without an "id" member.            *)
(* The locals of the loop body (matches, entity_id, payload) are dead at   *)
(* the top of each iteration; NextRow resets them, and also starts the     *)
(* per-iteration record of the lines printed (log) and the HTTP calls      *)
(* issued (calls).                                                         *)
(***************************************************************************)
EXTENDS Integers, Sequences, FiniteSets, TLC

\* ---------------------------------------------------------------- bounds
MaxRows == 2        \* data rows read from the file
MaxCols == 2        \* cells in the header row and in a data row
MaxMatches == 2     \* candidates in one search response

\* ---------------------------------------------------------------- inputs
Absent == "<absent>"
FieldIds == {"id", "st"}
Cells == {"", "A"}
RawIds == {"e1", "e2", "", Absent}
Tokens == {"", "tok"}
\* One path with a supported extension and one without; load_rows yields
\* lists of strings for .csv and .xlsx alike.
Files == {"in.CSV", "in.txt"}
SearchArgs == {<<>>, <<"st">>}

SeqsUpTo(S, n) == UNION {[1..k -> S] : k \in 0..n}

\* Header rows: field identifiers in every cell, or blank in every cell.
HeaderRows ==
    SeqsUpTo(FieldIds, MaxCols) \cup {[i \in 1..k |-> ""] : k \in 1..MaxCols}
DataRows == SeqsUpTo(Cells, MaxCols)
Candidates == [id : RawIds]

\* Response bodies of GET .../{entity}/ : a JSON list of candidates, or a JSON
\* object with or without a "data" member.
SearchBodies ==
    [isList : {TRUE}, hasData : {FALSE}, data : SeqsUpTo(Candidates, MaxMatches)]
    \cup [isList : {FALSE}, hasData : {TRUE}, data : SeqsUpTo(Candidates, 1)]
    \cup [isList : {FALSE}, hasData : {FALSE}, data : {<<>>}]

\* Response bodies of GET .../fields : lists of field descriptors.  In the
\* first, "st" is a list field whose only usable title is "A" and "id" is a
\* scalar; in the second, "st" is a list field without the title "A" and
\* "id" is a list field with it.
FieldsBodies ==
    { << [id |-> "st", type |-> "list",
          values |-> << [title |-> " A ", value |-> " 1"],
                        [title |-> "  ", value |-> "9"] >>],
         [id |-> "id", type |-> "string",
          values |-> << [title |-> "A", value |-> "5"] >>],
         [id |-> "", type |-> "list", values |-> <<>>] >>,
      << [id |-> "st", type |-> "list",
          values |-> << [title |-> "P", value |-> "2"] >>],
         [id |-> "id", type |-> "list",
          values |-> << [title |-> "A", value |-> "7"] >>] >> }

\* ---------------------------------------------------------------- helpers
Range(s) == {s[i] : i \in 1..Len(s)}

Put(f, k, v) == [x \in (DOMAIN f) \cup {k} |-> IF x = k THEN v ELSE f[x]]

\* str.lower() and str.strip() on the strings that occur in the model.
Lower(s) == IF s = "in.CSV" THEN "in.csv" ELSE s

Strip(s) ==
    CASE s = " A " -> "A"
      [] s = " 1" -> "1"
      [] s = "  " -> ""
      [] OTHER -> s

EndsWith(s, suffix) ==
    \/ suffix = ".csv" /\ s = "in.csv"
    \/ suffix = ".xlsx" /\ s = "in.xlsx"

\* str(x) of a candidate's id: str(None) is "None".
Str(raw) == IF raw = Absent THEN "None" ELSE raw

\* dict.get on a sequence of pairs
Get(d, k, default) ==
    IF \E i \in 1..Len(d) : d[i].k = k
    THEN (CHOOSE p \in Range(d) : p.k = k).v
    ELSE default

Keys(d) == {d[i].k : i \in 1..Len(d)}

Line(tag, id, pl, field, value) ==
    [tag |-> tag, id |-> id, payload |-> pl, field |-> field, value |-> value]

Call(kind, id, pl, field, value, ok) ==
    [kind |-> kind, id |-> id, payload |-> pl, field |-> field, value |-> value,
     ok |-> ok]

VARIABLES args, pc, outcome, exit_code, headers, search_field, fields_info,
          index, row_values, row, search_value, matches, entity_id, payload,
          calls, log, updated

vars == <<args, pc, outcome, exit_code, headers, search_field, fields_info,
          index, row_values, row, search_value, matches, entity_id, payload,
          calls, log, updated>>

\* ------------------------------------------------------- pure functions

\* load_rows: the generator raises on its first next() unless the lower-cased
\* path ends in .csv or .xlsx.
Supported(file_path) ==
    EndsWith(Lower(file_path), ".csv") \/ EndsWith(Lower(file_path), ".xlsx")

\* One list field's title -> value map (the inner loop of fetch_fields).
RECURSIVE TitleMap(_, _)
TitleMap(values, acc) ==
    IF values = <<>> THEN acc
    ELSE LET title == Strip(Head(values).title)
             val == Strip(Head(values).value)
         IN TitleMap(Tail(values), IF title # "" THEN Put(acc, title, val) ELSE acc)

\* fetch_fields, after the response has been received: field id -> FieldInfo.
RECURSIVE ParseFields(_, _)
ParseFields(data, fields) ==
    IF data = <<>> THEN fields
    ELSE LET field == Head(data)
             title_map == IF field.type = "list" THEN TitleMap(field.values, <<>>)
                          ELSE <<>>
             info == [field_type |-> field.type, list_title_to_value |-> title_map]
         IN ParseFields(Tail(data),
                        IF field.id # "" THEN Put(fields, field.id, info) ELSE fields)

fetch_fields(data) == ParseFields(data, <<>>)

\* search_entity, after the response has been received.
search_entity(body) ==
    IF body.isList THEN body.data
    ELSE IF body.hasData THEN body.data ELSE <<>>

\* The dict comprehension of main(): keys in order of first occurrence in the
\* header row, each with the cell of its last occurrence, "" beyond the row.
RECURSIVE MakeRow(_, _, _, _)
MakeRow(hdr, values, i, acc) ==
    IF i > Len(hdr) THEN acc
    ELSE LET k == hdr[i]
             v == IF i <= Len(values) THEN values[i] ELSE ""
         IN MakeRow(hdr, values, i + 1,
                    IF k \in Keys(acc)
                    THEN [j \in 1..Len(acc) |->
                             IF acc[j].k = k THEN [k |-> k, v |-> v] ELSE acc[j]]
                    ELSE Append(acc, [k |-> k, v |-> v]))

RowDict(hdr, values) == MakeRow(hdr, values, 1, <<>>)

\* Variant: the search field is treated like any other field.
IsSearchField_Never(field_id, search) == FALSE

\* build_update_payload, line 119: the search field is not part of the update.
IsSearchField(field_id, search) == field_id = search

\* Variant: a title missing from the list is sent as it is.
ResolveField_Raw(field_id, value, fields) ==
    IF field_id \in DOMAIN fields /\ fields[field_id].field_type = "list"
    THEN LET map == fields[field_id].list_title_to_value
         IN IF value \in DOMAIN map THEN <<map[value]>> ELSE <<value>>
    ELSE <<value>>

\* build_update_payload, lines 123-134: the value to send for one non-empty
\* cell, <<v>>, or <<>> when a list field has no such title.
ResolveField(field_id, value, fields) ==
    IF field_id \in DOMAIN fields /\ fields[field_id].field_type = "list"
    THEN LET map == fields[field_id].list_title_to_value
         IN IF value \in DOMAIN map THEN <<map[value]>> ELSE <<>>
    ELSE <<value>>

\* build_update_payload: the payload and the warnings it prints, in order.
RECURSIVE BuildLoop(_, _, _, _)
BuildLoop(items, search, fields, acc) ==
    IF items = <<>> THEN acc
    ELSE LET field_id == Head(items).k
             value == Head(items).v
             rest == Tail(items)
             mapped == ResolveField(field_id, value, fields)
         IN IF IsSearchField(field_id, search) THEN BuildLoop(rest, search, fields, acc)
            ELSE IF value = "" THEN BuildLoop(rest, search, fields, acc)
            ELSE IF mapped = <<>>
            THEN BuildLoop(rest, search, fields,
                   [acc EXCEPT !.warnings =
                      Append(@, Line("WARN_LIST", "", <<>>, field_id, value))])
            ELSE BuildLoop(rest, search, fields,
                   [acc EXCEPT !.payload = Put(@, field_id, mapped[1])])

build_update_payload(r, search, fields) ==
    BuildLoop(r, search, fields, [payload |-> <<>>, warnings |-> <<>>])

\* Variant: only a header row without cells counts as empty.
HeaderEmpty_NoCells(h) == h = <<>>

\* main(), line 183
HeaderEmpty(h) == h = <<>> \/ \A i \in 1..Len(h) : h[i] = ""

\* Variant: only a row without cells counts as empty.
AllEmpty_NoCells(values) == values = <<>>

\* main(), line 198
AllEmpty(values) == ~ \E i \in 1..Len(values) : values[i] # ""

\* Variant: the last candidate is used.
Chosen_Last(found) == found[Len(found)]

\* main(), line 216: the candidate whose id is used
Chosen(found) == found[1]

\* Variant: only the empty string counts as a missing id.
MissingId_OnlyEmpty(id) == id = ""

\* main(), line 217
MissingId(id) == id \in {"", "None"}

\* ---------------------------------------------------------------- state

TypeOK ==
    /\ pc \in {"start", "header", "fields", "read", "locate", "patch", "done"}
    /\ outcome \in {"running", "returned", "raised"}
    /\ exit_code \in {-1, 0, 1}
    /\ index \in 1..(MaxRows + 1)
    /\ updated \in 0..MaxRows

Init ==
    /\ args \in [webhook_token : Tokens, file : Files,
                 search_field : SearchArgs, dry_run : BOOLEAN]
    /\ pc = "start"
    /\ outcome = "running"
    /\ exit_code = -1
    /\ headers = <<>>
    /\ search_field = ""
    /\ fields_info = <<>>
    /\ index = 1
    /\ row_values = <<>>
    /\ row = <<>>
    /\ search_value = ""
    /\ matches = <<>>
    /\ entity_id = ""
    /\ payload = <<>>
    /\ calls = <<>>
    /\ log = <<>>
    /\ updated = 0

\* `return code` from main(): raise SystemExit(code).
Return(code, lines) ==
    /\ pc' = "done"
    /\ outcome' = "returned"
    /\ exit_code' = code
    /\ log' = log \o lines

\* An exception leaves main() uncaught: the interpreter prints the traceback
\* and the process ends with status 1.
Raise ==
    /\ pc' = "done"
    /\ outcome' = "raised"
    /\ exit_code' = 1

\* Variant: a skipped row ends the run.
Skip_Abort(lines) == Return(1, lines)

\* `continue` in the loop body: print the lines and go on to the next row.
Skip(lines) ==
    /\ log' = log \o lines
    /\ pc' = "read"
    /\ UNCHANGED <<outcome, exit_code>>

\* Variant: the error is caught and the driver goes on to the next row.
RaiseForStatus_RowLocal ==
    /\ pc' = "read"
    /\ UNCHANGED <<outcome, exit_code>>

\* response.raise_for_status() on a non-success status (lines 94, 153, 167): the
\* HTTPError is caught nowhere.
RaiseForStatus == Raise

\* main(), lines 171-174
CheckToken ==
    /\ pc = "start"
    /\ IF args.webhook_token = ""
       THEN Return(1, <<Line("ERR_TOKEN", "", <<>>, "", "")>>)
       ELSE /\ pc' = "header"
            /\ UNCHANGED <<outcome, exit_code, log>>
    /\ UNCHANGED <<args, headers, search_field, fields_info, index, row_values,
                   row, search_value, matches, entity_id, payload, calls, updated>>

\* main(), lines 176-190: the first next() on load_rows and the header checks.
ReadHeader ==
    /\ pc = "header"
    /\ \/ /\ ~Supported(args.file)
          /\ Raise
          /\ UNCHANGED <<headers, search_field, log>>
       \/ /\ Supported(args.file)
          /\ Return(1, <<Line("ERR_EMPTY_FILE", "", <<>>, "", "")>>)
          /\ UNCHANGED <<headers, search_field>>
       \/ /\ Supported(args.file)
          /\ \E h \in HeaderRows :
               /\ headers' = h
               /\ IF HeaderEmpty(h)
                  THEN /\ Return(1, <<Line("ERR_EMPTY_HEADER", "", <<>>, "", "")>>)
                       /\ UNCHANGED search_field
                  ELSE LET sf == IF args.search_field = <<>> \/ args.search_field[1] = ""
                                 THEN h[1] ELSE args.search_field[1]
                       IN /\ search_field' = sf
                          /\ IF sf \notin Range(h)
                             THEN Return(1, <<Line("ERR_SEARCH_FIELD", "", <<>>, sf, "")>>)
                             ELSE /\ pc' = "fields"
                                  /\ UNCHANGED <<outcome, exit_code, log>>
    /\ UNCHANGED <<args, fields_info, index, row_values, row, search_value,
                   matches, entity_id, payload, calls, updated>>

\* main(), line 195: fetch_fields; raise_for_status() raises on a non-success
\* status.
FetchFields ==
    /\ pc = "fields"
    /\ \/ /\ calls' = Append(calls, Call("FIELDS", "", <<>>, "", "", FALSE))
          /\ RaiseForStatus
          /\ UNCHANGED fields_info
       \/ \E data \in FieldsBodies :
            /\ calls' = Append(calls, Call("FIELDS", "", <<>>, "", "", TRUE))
            /\ fields_info' = fetch_fields(data)
            /\ pc' = "read"
            /\ UNCHANGED <<outcome, exit_code>>
    /\ UNCHANGED <<args, headers, search_field, index, row_values, row,
                   search_value, matches, entity_id, payload, log, updated>>

\* main(), lines 197-204: next row of the file, the all-empty check, the row
\* dict and the search value.  StopIteration ends the loop: return 0.
NextRow ==
    /\ pc = "read"
    /\ \/ /\ Return(0, <<>>)
          /\ UNCHANGED <<index, row_values, row, search_value, matches,
                         entity_id, payload, calls>>
       \/ /\ index <= MaxRows
          /\ \E values \in DataRows :
               /\ index' = index + 1
               /\ row_values' = values
               /\ matches' = <<>>
               /\ entity_id' = ""
               /\ payload' = <<>>
               /\ calls' = <<>>
               /\ UNCHANGED <<outcome, exit_code>>
               /\ IF AllEmpty(values)
                  THEN /\ pc' = "read"
                       /\ log' = <<>>
                       /\ row' = <<>>
                       /\ search_value' = ""
                  ELSE LET r == RowDict(headers, values)
                           sv == Get(r, search_field, "")
                       IN /\ row' = r
                          /\ search_value' = sv
                          /\ IF sv = ""
                             THEN /\ pc' = "read"
                                  /\ log' = <<Line("WARN_EMPTY", "", <<>>, "", "")>>
                             ELSE /\ pc' = "locate"
                                  /\ log' = <<>>
    /\ UNCHANGED <<args, headers, search_field, fields_info, updated>>

\* Variant: the dry-run flag is ignored.
Apply_IgnoreDryRun(lines, id, pl) ==
    /\ pc' = "patch"
    /\ log' = log \o lines
    /\ UNCHANGED <<outcome, exit_code>>

\* main(), lines 226-228: in dry-run the would-be PATCH is printed and the row
\* is done; otherwise the PATCH is sent next.  `lines` are the warnings
\* printed earlier in the iteration.
Apply(lines, id, pl) ==
    IF args.dry_run
    THEN Skip(lines \o <<Line("DRY-RUN", id, pl, "", "")>>)
    ELSE /\ pc' = "patch"
         /\ log' = log \o lines
         /\ UNCHANGED <<outcome, exit_code>>

\* main(), lines 206-228: search_entity and everything up to the PATCH.
Locate ==
    /\ pc = "locate"
    /\ \/ /\ calls' = Append(calls, Call("SEARCH", "", <<>>, search_field, search_value, FALSE))
          /\ RaiseForStatus
          /\ UNCHANGED <<matches, entity_id, payload, log>>
       \/ \E body \in SearchBodies :
            LET found == search_entity(body)
                multi == IF Len(found) > 1
                         THEN <<Line("WARN_MULTI", "", <<>>, search_field, search_value)>>
                         ELSE <<>>
                id == IF found = <<>> THEN "" ELSE Str(Chosen(found).id)
                built == build_update_payload(row, search_field, fields_info)
            IN /\ calls' = Append(calls, Call("SEARCH", "", <<>>, search_field, search_value, TRUE))
               /\ matches' = found
               /\ IF found = <<>>
                  THEN /\ Skip(<<Line("WARN_NOMATCH", "", <<>>, search_field, search_value)>>)
                       /\ UNCHANGED <<entity_id, payload>>
                  ELSE /\ entity_id' = id
                       /\ IF MissingId(id)
                          THEN /\ Skip(multi \o <<Line("WARN_NOID", "", <<>>, search_field, search_value)>>)
                               /\ UNCHANGED payload
                          ELSE /\ payload' = built.payload
                               /\ IF built.payload = <<>>
                                  THEN Skip(multi \o built.warnings
                                            \o <<Line("INFO_NOTHING", "", <<>>, search_field, search_value)>>)
                                  ELSE Apply(multi \o built.warnings, id, built.payload)
    /\ UNCHANGED <<args, headers, search_field, fields_info, index, row_values,
                   row, search_value, updated>>

\* main(), lines 230-231: patch_entity, then the [OK] line.
Patch ==
    /\ pc = "patch"
    /\ \/ /\ calls' = Append(calls, Call("PATCH", entity_id, payload, "", "", FALSE))
          /\ RaiseForStatus
          /\ UNCHANGED <<log, updated>>
       \/ /\ calls' = Append(calls, Call("PATCH", entity_id, payload, "", "", TRUE))
          /\ updated' = updated + 1
          /\ Skip(<<Line("OK", entity_id, <<>>, "", "")>>)
    /\ UNCHANGED <<args, headers, search_field, fields_info, index, row_values,
                   row, search_value, matches, entity_id, payload>>

Next == CheckToken \/ ReadHeader \/ FetchFields \/ NextRow \/ Locate \/ Patch

Spec == Init /\ [][Next]_vars

\* The loop is sequential and every step of it ends (each HTTP call has a
\* timeout), so a step that can be taken is taken.
FairSpec == Init /\ [][Next]_vars /\ WF_vars(Next)

\* ------------------------------------------------------------ properties

LinesWith(tag) == SelectSeq(log, LAMBDA l : l.tag = tag)
CallsOf(kind) == SelectSeq(calls, LAMBDA c : c.kind = kind)

WarnTags == {"WARN_EMPTY", "WARN_NOMATCH", "WARN_MULTI", "WARN_NOID", "WARN_LIST"}
SkipTags == {"WARN_EMPTY", "WARN_NOMATCH", "WARN_NOID", "INFO_NOTHING"}
Warnings == SelectSeq(log, LAMBDA l : l.tag \in WarnTags)

\* The iteration for the row read last is over: it ran to a `continue`, to
\* the end of the loop body, or into an exception.
RowDone == index >= 2 /\ pc \in {"read", "done"}

\* The value the row holds for the search field.
SearchCell == Get(RowDict(headers, row_values), search_field, "")

RowBlank == \A i \in 1..Len(row_values) : row_values[i] = ""

FirstId == Str(matches[1].id)

Built == build_update_payload(RowDict(headers, row_values), search_field, fields_info)

\* The row gets as far as lines 226-231.
ReachesApply ==
    /\ SearchCell # ""
    /\ matches # <<>>
    /\ FirstId \notin {"", "None"}
    /\ Built.payload # <<>>

\* C1: in dry-run mode no PATCH call is ever issued, and a row that reaches
\* the apply step prints exactly one [DRY-RUN] line, which carries the entity
\* id and the payload that would have been sent.
C1_DryRunNeverPatches ==
    args.dry_run =>
        /\ CallsOf("PATCH") = <<>>
        /\ pc # "patch"
        /\ updated = 0
        /\ (RowDone /\ ReachesApply) =>
               LinesWith("DRY-RUN") = <<Line("DRY-RUN", FirstId, Built.payload, "", "")>>

C1_Witness ==
    /\ args.dry_run
    /\ RowDone
    /\ ReachesApply
    /\ Len(LinesWith("DRY-RUN")) = 1

\* C2 as stated: every row whose search-field value is empty, rows with only
\* empty cells included, issues no call and prints exactly one warning.
C2_Original ==
    (RowDone /\ SearchCell = "") => (calls = <<>> /\ Len(Warnings) = 1)

\* C2, amended: a row whose search-field value is empty issues no locate and
\* no update call; it prints exactly one warning if some cell of the row is
\* non-empty, and nothing at all if every cell is empty.
C2_EmptySearchValue ==
    (RowDone /\ SearchCell = "") =>
        /\ calls = <<>>
        /\ IF RowBlank THEN log = <<>>
           ELSE log = <<Line("WARN_EMPTY", "", <<>>, "", "")>>

C2_Witness ==
    /\ RowDone
    /\ SearchCell = ""
    /\ ~RowBlank
    /\ Len(row_values) < Len(headers)
    /\ Len(Warnings) = 1

\* Line 221 has run for the current row: payload holds what
\* build_update_payload returned and log holds what it printed.
PayloadBuilt == index >= 2 /\ matches # <<>> /\ entity_id \notin {"", "None"}

IsListField(f) == f \in DOMAIN fields_info /\ fields_info[f].field_type = "list"

ListWarnings(f, v) ==
    SelectSeq(log, LAMBDA l : l.tag = "WARN_LIST" /\ l.field = f /\ l.value = v)

\* What C3 says of one list field f with the non-empty raw value v.
ListFieldRule(f, v) ==
    LET map == fields_info[f].list_title_to_value
    IN IF v \in DOMAIN map
       THEN f \in DOMAIN payload /\ payload[f] = map[v]
       ELSE f \notin DOMAIN payload /\ Len(ListWarnings(f, v)) = 1

\* C3 as stated: every list field with a non-empty cell is in the payload
\* with its mapped code on a hit, and absent with one warning on a miss.
C3_Original ==
    PayloadBuilt =>
        \A i \in 1..Len(row) :
            (IsListField(row[i].k) /\ row[i].v # "") => ListFieldRule(row[i].k, row[i].v)

\* C3, amended: the rule holds for every list field other than the search
\* field; the search field is never in the payload and draws no warning.
C3_ListFields ==
    PayloadBuilt =>
        \A i \in 1..Len(row) :
            (IsListField(row[i].k) /\ row[i].v # "") =>
                IF row[i].k = search_field
                THEN /\ row[i].k \notin DOMAIN payload
                     /\ ListWarnings(row[i].k, row[i].v) = <<>>
                ELSE ListFieldRule(row[i].k, row[i].v)

C3_Witness ==
    /\ PayloadBuilt
    /\ \E i \in 1..Len(row) :
         /\ IsListField(row[i].k)
         /\ row[i].k # search_field
         /\ row[i].v # ""
         /\ row[i].v \notin DOMAIN fields_info[row[i].k].list_title_to_value
         /\ Len(ListWarnings(row[i].k, row[i].v)) = 1

\* C4: no payload sent by PATCH or printed in dry-run has the search field's
\* identifier as a key.
C4_NoSearchFieldInPayload ==
    /\ \A i \in 1..Len(calls) :
         calls[i].kind = "PATCH" => search_field \notin DOMAIN calls[i].payload
    /\ \A i \in 1..Len(log) :
         log[i].tag = "DRY-RUN" => search_field \notin DOMAIN log[i].payload

C4_Witness ==
    /\ CallsOf("PATCH") # <<>>
    /\ SearchCell # ""
    /\ DOMAIN CallsOf("PATCH")[1].payload # {}

\* The search field main() settles on for the header row it has read.
EffectiveSearchField ==
    IF args.search_field = <<>> THEN headers[1] ELSE args.search_field[1]

\* Missing token, empty file, empty header row, or search field not in the
\* header row.  (headers is <<>> when the file had no first row.)
ConfigError ==
    \/ args.webhook_token = ""
    \/ /\ args.file # "in.txt"
       /\ \/ headers = <<>>
          \/ \A i \in 1..Len(headers) : headers[i] = ""
          \/ EffectiveSearchField \notin Range(headers)

SomeCallFailed == \E i \in 1..Len(calls) : ~calls[i].ok

\* C5 as stated: the exit code is 1 exactly on the four configuration errors
\* and 0 in every other case.
C5_Original ==
    pc = "done" => ((exit_code = 1) <=> ConfigError) /\ (~ConfigError => exit_code = 0)

\* C5, amended: main() returns 1 exactly on the four configuration errors; an
\* unsupported extension or a non-success HTTP status ends the run with an
\* uncaught exception and so with status 1; the exit code is 0 exactly when
\* none of these happened.
C5_ExitCodes ==
    pc = "done" =>
        /\ (outcome = "returned" /\ exit_code = 1) <=> ConfigError
        /\ (outcome = "raised") <=>
               (~ConfigError /\ (args.file = "in.txt" \/ SomeCallFailed))
        /\ (outcome = "raised") => exit_code = 1
        /\ (exit_code = 0) <=>
               (~ConfigError /\ args.file # "in.txt" /\ ~SomeCallFailed)

C5_Witness ==
    /\ pc = "done"
    /\ outcome = "raised"
    /\ exit_code = 1
    /\ args.file = "in.txt"

\* C6: a PATCH call is issued for a row only if its locate call returned at
\* least one match, the first match's id is neither "" nor "None" as a
\* string, and the payload is non-empty.
C6_PatchOnlyIf ==
    (pc = "patch" \/ CallsOf("PATCH") # <<>>) =>
        /\ Len(calls) >= 1 /\ calls[1].kind = "SEARCH" /\ calls[1].ok
        /\ matches # <<>>
        /\ FirstId \notin {"", "None"}
        /\ payload # <<>>
        /\ \A i \in 1..Len(calls) : calls[i].kind = "PATCH" => calls[i].payload # <<>>

C6_Witness ==
    /\ CallsOf("PATCH") # <<>>
    /\ matches # <<>>
    /\ payload # <<>>

\* The row read last was skipped: silently, or with one of the RowSkip lines.
RowSkipped ==
    /\ index >= 2
    /\ calls = <<>> \/ calls[Len(calls)].ok
    /\ \/ RowBlank /\ log = <<>> /\ matches = <<>> /\ calls = <<>>
       \/ log # <<>> /\ log[Len(log)].tag \in SkipTags

C8_FirstMatchOnly ==
    /\ Len(CallsOf("PATCH")) <= 1
    /\ Len(matches) > 1 =>
          /\ Len(LinesWith("WARN_MULTI")) = 1
          /\ pc = "patch" => entity_id = FirstId
          /\ \A i \in 1..Len(calls) : calls[i].kind = "PATCH" => calls[i].id = FirstId

C8_Witness ==
    /\ Len(matches) > 1
    /\ matches[1].id # matches[2].id
    /\ Str(matches[2].id) \notin {"", "None"}
    /\ CallsOf("PATCH") # <<>>

\* C9: a non-success status from a locate or update call ends the run there:
\* the failed call is the last call, no step follows it, and the updates
\* made before it stay made.
C9_TransportErrorEndsRun ==
    /\ [](\A i \in 1..Len(calls) :
             (calls[i].kind \in {"SEARCH", "PATCH"} /\ ~calls[i].ok) =>
                 /\ i = Len(calls)
                 /\ outcome = "raised"
                 /\ pc = "done"
                 /\ ~ENABLED Next)
    /\ [][pc # "done" /\ updated' >= updated]_vars

C9_Witness ==
    /\ outcome = "raised"
    /\ index >= 3
    /\ updated >= 1
    /\ calls # <<>>
    /\ calls[Len(calls)].kind = "SEARCH"
    /\ ~calls[Len(calls)].ok

\* C10: without --search-field, every search uses the row's first-column
\* cell, and a row whose first-column cell is non-empty is searched for.
C10_FirstColumn ==
    (args.search_field = <<>> /\ index >= 2 /\ ~RowBlank) =>
        /\ \A i \in 1..Len(calls) :
             calls[i].kind = "SEARCH" => calls[i].value = row_values[1]
        /\ (RowDone /\ row_values[1] # "") => CallsOf("SEARCH") # <<>>

====
